---- MODULE Spec2Model ----
(***************************************************************************)
(* A model of claude_helper: the persistent analysis cache                 *)
(* (utils/cache.py), the orchestrator (cli.py) with its progress tracker   *)
(* (utils/progress.py), and the dependency walk of the analyzers           *)
(* (analyzers/base.py).                                                    *)
(*                                                                         *)
(* Time is counted in half seconds, so that time.time() (a float) and      *)
(* int(time.time()) (its truncation to whole seconds) are different        *)
(* values: a clock of 3 is 1.5 s and truncates to 1.                       *)
(***************************************************************************)
EXTENDS Integers, Sequences, FiniteSets, TLC

VARIABLES
    table,      \* the rows of the sqlite table analysis_cache
    clock,      \* time.time(), in half seconds
    config,     \* CacheConfig: enabled, max_size (MB); ttl is the constant below
    last        \* the last cache operation: its arguments and what it returned

cacheVars == <<table, clock, config, last>>

VARIABLES
    analyzer,           \* the class of the analyzer instance
    disk,               \* the content of each file of the workspace
    on_disk,            \* the files that exist
    file_cache,         \* BaseAnalyzer._file_cache: path -> content
    dependency_cache,   \* BaseAnalyzer._dependency_cache: path -> set of paths
    dlast               \* the last call on the analyzer and what it returned

depVars == <<analyzer, disk, on_disk, file_cache, dependency_cache, dlast>>

VARIABLES
    store_ok,   \* whether the sqlite store answers (else its calls raise)
    acache,     \* the _file_cache of each analyzer of ClaudeHelper.analyzers
    files,      \* batch_analyze: the list of files it was called with
    pc,         \* batch_analyze: where it stands ("idle", "loop", "started", "done")
    idx,        \* batch_analyze: how many files the loop has taken
    tracker,    \* the ProgressTracker of the batch
    attempted,  \* the files batch_analyze called analyze_file on, in order
    yielded,    \* how many results batch_analyze has yielded
    olast       \* the last ClaudeHelper.analyze_file call and how it ended

orchVars == <<store_ok, acache, files, pc, idx, tracker, attempted, yielded, olast>>

VARIABLES
    stack,      \* analyze_dependencies in progress: the frames of its recursion
    wcall,      \* the outermost call: its file, depth and the memo tables it met
    wret        \* how the outermost call ended, once it has

walkVars == <<stack, wcall, wret>>

VARIABLE
    rlast       \* the last read_file, get_file_hash or analyze_file call on the
                \* analyzer and how it ended

VARIABLES
    brace,      \* the last _find_closing_brace call and how it ended
    cx,         \* the last function PythonAnalyzer scored and what it found
    workers     \* the workers that call AnalysisCache.set: where each stands

pureVars == <<brace, cx>>

(***************************************************************************)
(* Bounds of the model and constants of the program.                       *)
(***************************************************************************)
\* The number of times the clock advances in a behaviour.
MaxTicks == 2

\* [cache] ttl = 60  (minutes)
ttl == 60

\* The cache keeps rows for these file paths, under these content hashes.
Paths == {"a.py", "b.py"}
Hashes == {"h1", "h2"}

\* What the clock advances by: half a second, or a full TTL (60 min = 7200 half s).
TickSteps == {1, 2 * ttl * 60}

\* [cache] max_size, in MB: with 0 every stored row is over the budget, with 1
\* the rows of the model (2 to 8 bytes each) never are.
MaxSizes == {0, 1}

(***************************************************************************)
(* Python values and their JSON text.  A value is a dict with no entry or  *)
(* with one entry; its key is a str or an int, its value an int, a str or  *)
(* an object json cannot serialize.  keyLen and valLen are the lengths of  *)
(* the key's and the value's JSON text.                                    *)
(***************************************************************************)
D_EMPTY == [entries |-> 0, keyInt |-> FALSE, keyLen |-> 0, valKind |-> "int", valLen |-> 0]
D_STR   == [entries |-> 1, keyInt |-> FALSE, keyLen |-> 0, valKind |-> "int", valLen |-> 1]
D_INT   == [entries |-> 1, keyInt |-> TRUE,  keyLen |-> 1, valKind |-> "int", valLen |-> 1]
D_OBJ   == [entries |-> 1, keyInt |-> FALSE, keyLen |-> 0, valKind |-> "obj", valLen |-> 0]

\* {}, {"": 1}, {1: 1}, {"": <AnalysisResult>}
Datas == {D_EMPTY, D_STR, D_INT, D_OBJ}

\* json.dumps raises TypeError on a value it cannot serialize.
Serializable(d) == d.valKind # "obj"

\* json.dumps(d): the JSON text; every key of a JSON object is a string.
json_dumps(d) ==
    [entries |-> d.entries, keyLen |-> d.keyLen, valKind |-> d.valKind, valLen |-> d.valLen]

\* json.loads(t): the dict of a JSON text; its keys are str.
json_loads(t) ==
    [entries |-> t.entries, keyInt |-> FALSE, keyLen |-> t.keyLen,
     valKind |-> t.valKind, valLen |-> t.valLen]

\* len(text): '{}' is 2 characters, '{"k": v}' is len(k) + len(v) + 6.
text_len(t) == IF t.entries = 0 THEN 2 ELSE t.keyLen + t.valLen + 6

\* Optional[Dict]: None, or a dict.
None == [some |-> FALSE, v |-> D_EMPTY]
Some(d) == [some |-> TRUE, v |-> d]

\* int(time.time()): whole seconds, truncated.
int_time(clk) == clk \div 2

(***************************************************************************)
(* AnalysisCache                                                           *)
(***************************************************************************)
\* The rows a SELECT ... WHERE file_path = ? AND content_hash = ? finds.
select_rows(t, file_path, content_hash) ==
    {r \in t : r.file_path = file_path /\ r.content_hash = content_hash}

\* A validity test that turns an entry of exactly ttl * 60 seconds away.
is_fresh_strict(clk, timestamp) == clk - 2 * timestamp < 2 * (ttl * 60)

\* The validity test of get: time.time() - timestamp <= ttl * 60.
is_fresh(clk, timestamp) == clk - 2 * timestamp <= 2 * (ttl * 60)

\* AnalysisCache.get: the cached analysis if valid, else None.
get(t, cfg, clk, file_path, content_hash) ==
    IF ~cfg.enabled THEN None
    ELSE LET found == select_rows(t, file_path, content_hash)
         IN IF found = {} THEN None
            ELSE LET r == CHOOSE x \in found : TRUE
                 IN IF is_fresh(clk, r.timestamp)
                    THEN Some(json_loads(r.analysis_data))
                    ELSE None

\* A get that deletes the row of its path when it finds it expired or under
\* another hash.
table_after_get_purging(t, clk, file_path, content_hash) ==
    {r \in t : ~(/\ r.file_path = file_path
                 /\ (r.content_hash # content_hash \/ ~is_fresh(clk, r.timestamp)))}

\* The table after a get: its only statement is the SELECT, so the rows are
\* what they were.
table_after_get(t, clk, file_path, content_hash) == t

RECURSIVE SumSize(_)
\* SELECT SUM(file_size) FROM analysis_cache (NULL, read as 0, on no rows).
SumSize(rows) ==
    IF rows = {} THEN 0
    ELSE LET r == CHOOSE x \in rows : TRUE
         IN r.file_size + SumSize(rows \ {r})

\* A fifth of the volume rounded up instead of truncated.
evict_limit_round_up(total_size) == (total_size + 4) \div 5

\* int(total_size * 0.2)
evict_limit(total_size) == total_size \div 5

\* total_size > max_size * 1024 * 1024
over_budget(cfg, total_size) == total_size > cfg.max_size * 1024 * 1024

Min(a, b) == IF a <= b THEN a ELSE b

\* The sets of rows SELECT file_path ... ORDER BY timestamp ASC LIMIT n may
\* name: n rows (all of them when there are fewer), none newer than a row left
\* out; rows of equal timestamp come in any order.
oldest_rows(t, n) ==
    {S \in SUBSET t :
        /\ Cardinality(S) = Min(n, Cardinality(t))
        /\ \A d \in S : \A k \in t \ S : d.timestamp <= k.timestamp}

\* AnalysisCache._cleanup_if_needed: the sets of rows it may delete.
cleanup_victims(t, cfg) ==
    IF over_budget(cfg, SumSize(t))
    THEN oldest_rows(t, evict_limit(SumSize(t)))
    ELSE {{}}

\* An upsert keyed on (file_path, content_hash): a new hash adds a row.
insert_or_replace_by_hash(t, row) ==
    {r \in t : ~(r.file_path = row.file_path /\ r.content_hash = row.content_hash)}
        \cup {row}

\* INSERT OR REPLACE with PRIMARY KEY file_path: the row of the same path goes.
insert_or_replace(t, row) ==
    {r \in t : r.file_path # row.file_path} \cup {row}

\* The row set writes.
new_row(clk, file_path, content_hash, analysis_data) ==
    [file_path     |-> file_path,
     content_hash  |-> content_hash,
     analysis_data |-> json_dumps(analysis_data),
     timestamp     |-> int_time(clk),
     file_size     |-> text_len(json_dumps(analysis_data))]

\* A set whose eviction check runs after the insert, on the table holding the
\* new row.
set_table_evict_after(t, cfg, clk, file_path, content_hash, analysis_data, victims) ==
    IF ~cfg.enabled \/ ~Serializable(analysis_data) THEN t
    ELSE LET written == insert_or_replace(
                            t, new_row(clk, file_path, content_hash, analysis_data))
         IN written \ (CHOOSE S \in cleanup_victims(written, cfg) : TRUE)

\* AnalysisCache.set with the rows `victims` chosen by its eviction check:
\* the table afterwards.  The eviction check runs first; json.dumps is
\* evaluated after it, so a value that cannot be serialized raises with the
\* eviction done and no row written.
set_table(t, cfg, clk, file_path, content_hash, analysis_data, victims) ==
    IF ~cfg.enabled THEN t
    ELSE IF ~Serializable(analysis_data) THEN t \ victims
    ELSE insert_or_replace(t \ victims,
                           new_row(clk, file_path, content_hash, analysis_data))

\* What set raises: nothing, or json.dumps's TypeError.
set_raises(cfg, analysis_data) ==
    IF cfg.enabled /\ ~Serializable(analysis_data) THEN "TypeError" ELSE ""

\* A DELETE without its WHERE clause.
invalidate_table_all(t, file_path) == {}

\* AnalysisCache.invalidate: DELETE FROM analysis_cache WHERE file_path = ?
invalidate_table(t, file_path) == {r \in t : r.file_path # file_path}

\* AnalysisCache.get_stats: entry_count, total size, oldest, newest.
RECURSIVE MinTs(_)
MinTs(rows) ==
    LET r == CHOOSE x \in rows : TRUE
    IN IF rows = {r} THEN r.timestamp ELSE Min(r.timestamp, MinTs(rows \ {r}))

RECURSIVE MaxTs(_)
MaxTs(rows) ==
    LET r == CHOOSE x \in rows : TRUE
    IN IF rows = {r} THEN r.timestamp
       ELSE IF r.timestamp >= MaxTs(rows \ {r}) THEN r.timestamp ELSE MaxTs(rows \ {r})

get_stats(t) ==
    [entry_count |-> Cardinality(t),
     total_size  |-> SumSize(t),
     oldest      |-> IF t = {} THEN 0 ELSE MinTs(t),
     newest      |-> IF t = {} THEN 0 ELSE MaxTs(t)]

(***************************************************************************)
(* The cache's operations as actions.  `last` records the operation.       *)
(***************************************************************************)
NoOp == [op |-> "none", path |-> "", hash |-> "", data |-> D_EMPTY,
         ret |-> None, raised |-> "", evicted |-> {}, dropped |-> {}, at |-> 0]

\* The record of an operation; `at` is the time of the call, `evicted` the rows
\* the eviction check of a set deleted, `dropped` the rows the upsert of a set
\* replaced or an invalidate deleted.
Op(name) == [NoOp EXCEPT !.op = name, !.at = clock]

\* The store is persistent: it opens empty, or with the rows an earlier run left.
InitTables ==
    {{}, {new_row(0, "a.py", "h1", D_STR), new_row(0, "b.py", "h2", D_EMPTY)}}

CacheInit ==
    /\ table \in InitTables
    /\ clock = 0
    /\ config \in [enabled : BOOLEAN, max_size : MaxSizes]
    /\ last = NoOp

Get(p, h) ==
    /\ last' = [Op("get") EXCEPT !.path = p, !.hash = h,
                                 !.ret = get(table, config, clock, p, h)]
    /\ table' = table_after_get(table, clock, p, h)
    /\ UNCHANGED <<clock, config, depVars, orchVars, walkVars, rlast, pureVars, workers>>

Set(p, h, d) ==
    \E victims \in (IF config.enabled THEN cleanup_victims(table, config) ELSE {{}}) :
        /\ table' = set_table(table, config, clock, p, h, d, victims)
        /\ last' = [Op("set") EXCEPT !.path = p, !.hash = h, !.data = d,
                                     !.raised = set_raises(config, d),
                                     !.evicted = victims,
                                     !.dropped = (table \ victims)
                                         \ set_table(table, config, clock, p, h, d, victims)]
        /\ UNCHANGED <<clock, config, depVars, orchVars, walkVars, rlast, pureVars, workers>>

Invalidate(p) ==
    /\ table' = invalidate_table(table, p)
    /\ last' = [Op("invalidate") EXCEPT !.path = p,
                                        !.dropped = table \ invalidate_table(table, p)]
    /\ UNCHANGED <<clock, config, depVars, orchVars, walkVars, rlast, pureVars, workers>>

GetStats ==
    /\ last' = [Op("get_stats") EXCEPT
                    !.ret = Some([D_EMPTY EXCEPT
                                    !.entries = get_stats(table).entry_count,
                                    !.valLen  = get_stats(table).total_size])]
    /\ UNCHANGED <<table, clock, config, depVars, orchVars, walkVars, rlast, pureVars, workers>>

\* The number of clock advances so far: each clock value is a unique sum of steps.
Ticks(clk) == (clk \div (2 * ttl * 60)) + (clk % (2 * ttl * 60))

Tick(step) ==
    /\ Ticks(clock) < MaxTicks
    /\ clock' = clock + step
    /\ UNCHANGED <<table, config, last, depVars, orchVars, walkVars, rlast, pureVars, workers>>

CacheNext ==
    \/ \E p \in Paths, h \in Hashes : Get(p, h)
    \/ \E p \in Paths, h \in Hashes, d \in Datas : Set(p, h, d)
    \/ \E p \in Paths : Invalidate(p)
    \/ GetStats
    \/ \E s \in TickSteps : Tick(s)


(***************************************************************************)
(* BaseAnalyzer: read_file, analyze_file and analyze_dependencies.         *)
(*                                                                         *)
(* A path is written as the file's name and stands for its resolved        *)
(* absolute path.  A file on disk has a size, text that parses or not, and *)
(* the imports the analyzer finds in it, in order.                         *)
(***************************************************************************)
\* AnalysisOptions.max_file_size = 1024 * 1024
max_file_size == 1048576

\* The largest depth analyze_dependencies is called with.
MaxDepth == 3

Files == {"a.py", "b.py", "c.py"}
Depths == -1 .. MaxDepth

\* A Dependency built from an import: is_local and import_path; an import
\* that is not local has import_path None (the empty string here).
Local(target) == [is_local |-> TRUE, import_path |-> target]
External == [is_local |-> FALSE, import_path |-> ""]

\* A file's content on disk: its size in bytes, whether it is UTF-8 text,
\* whether that text is Python that ast.parse accepts, the imports and the
\* number of functions and classes in it, and what else about it the analyzers
\* stumble on (`fault`); `rev` tells two texts of the same shape apart.
Text(size, syntax_ok, imports, defs, fault) ==
    [size |-> size, syntax_ok |-> syntax_ok, imports |-> imports, defs |-> defs,
     decodes |-> TRUE, fault |-> fault, rev |-> 0]

Source(imports) == Text(10, TRUE, imports, 1, "")
EmptyFile == Text(0, TRUE, <<>>, 0, "")
BadSyntax == Text(10, FALSE, <<>>, 0, "")
AtLimit(imports) == Text(max_file_size, TRUE, imports, 1, "")
TooLarge(imports) == Text(max_file_size + 1, TRUE, imports, 1, "")

\* The same text with one byte changed.
Revised(content) == [content EXCEPT !.rev = 1 - @]

\* Python text with neither import nor function nor class ("x = 1").
Plain == Text(10, TRUE, <<>>, 0, "")

\* Bytes that are not UTF-8: read_text raises UnicodeDecodeError.
Undecodable == [Text(10, FALSE, <<>>, 0, "") EXCEPT !.decodes = FALSE]

\* Python text nested deeper than the parser goes ("x = " + "-" * 5000 + "1"):
\* ast.parse raises RecursionError, which is no SyntaxError.
Nested == Text(10, FALSE, <<>>, 0, "nested")

\* Python text with a function decorated by a dotted call ("@a.b.c(1)"):
\* _get_decorator_name reads node.func.value.id of an ast.Attribute.
Decorated == Text(10, TRUE, <<>>, 1, "decorator")

\* React text with a hook call followed by "}" before any "{"
\* ("const [n, setN] = useState(0); }"): _find_closing_brace pops its empty
\* stack.
Braced == Text(10, TRUE, <<>>, 1, "brace")

\* The workspaces of the model: a chain, a cycle, a diamond with a back edge,
\* and files that are empty, do not parse or are too large; "m.py" is a local
\* import whose file never exists.
Workspaces ==
    { [f \in Files |-> CASE f = "a.py" -> Source(<<Local("b.py")>>)
                         [] f = "b.py" -> Source(<<Local("c.py")>>)
                         [] OTHER      -> Source(<<>>)],
      [f \in Files |-> CASE f = "a.py" -> Source(<<Local("b.py")>>)
                         [] f = "b.py" -> AtLimit(<<Local("a.py"), Local("c.py")>>)
                         [] OTHER      -> Source(<<External>>)],
      [f \in Files |-> CASE f = "a.py" -> Source(<<Local("c.py"), Local("b.py")>>)
                         [] f = "b.py" -> Source(<<Local("c.py")>>)
                         [] OTHER      -> Source(<<Local("a.py")>>)],
      [f \in Files |-> CASE f = "a.py" -> Source(<<External, Local("m.py"),
                                                   Local("b.py"), Local("b.py")>>)
                         [] f = "b.py" -> EmptyFile
                         [] OTHER      -> BadSyntax],
      [f \in Files |-> CASE f = "a.py" -> Source(<<Local("b.py"), Local("c.py")>>)
                         [] f = "b.py" -> TooLarge(<<Local("c.py")>>)
                         [] OTHER      -> BadSyntax] }

Analyzers == {"PythonAnalyzer", "ReactAnalyzer"}

\* dict[key] = value
Put(dict, key, value) ==
    [k \in DOMAIN dict \cup {key} |-> IF k = key THEN value ELSE dict[k]]

\* The empty dict.
EmptyMap == [k \in {} |-> {}]

\* What a failed or empty-handed read_file hands back.
NoRead(st, raised, touched) ==
    [st |-> st, found |-> FALSE, content |-> EmptyFile, raised |-> raised,
     touched |-> touched]

\* A read_file that memoizes nothing.
read_file_no_memo(st, file_path) ==
    IF file_path \in DOMAIN st.file_cache
    THEN [st |-> st, found |-> TRUE, content |-> st.file_cache[file_path],
          raised |-> "", touched |-> FALSE]
    ELSE IF file_path \notin st.on_disk THEN NoRead(st, "", FALSE)
    ELSE IF st.disk[file_path].size > max_file_size
    THEN NoRead(st, "ValueError", FALSE)
    ELSE IF ~st.disk[file_path].decodes THEN NoRead(st, "ValueError", TRUE)
    ELSE [st |-> st, found |-> TRUE, content |-> st.disk[file_path],
          raised |-> "", touched |-> TRUE]

\* BaseAnalyzer.read_file on the analyzer state st: the memoized text if there
\* is one; else None (found = FALSE) for a file that does not exist, a
\* ValueError for a file over max_file_size, and only then the text is read
\* (touched): memoized and returned, or a ValueError if read_text raised.
read_file(st, file_path) ==
    IF file_path \in DOMAIN st.file_cache
    THEN [st |-> st, found |-> TRUE, content |-> st.file_cache[file_path],
          raised |-> "", touched |-> FALSE]
    ELSE IF file_path \notin st.on_disk THEN NoRead(st, "", FALSE)
    ELSE IF st.disk[file_path].size > max_file_size
    THEN NoRead(st, "ValueError", FALSE)
    ELSE IF ~st.disk[file_path].decodes THEN NoRead(st, "ValueError", TRUE)
    ELSE [st |-> [st EXCEPT !.file_cache = Put(@, file_path, st.disk[file_path])],
          found |-> TRUE, content |-> st.disk[file_path], raised |-> "",
          touched |-> TRUE]

\* hashlib.md5(content.encode()).hexdigest(): a digest that tells the texts of
\* the model apart.
md5(content) == <<"md5", content>>

\* BaseAnalyzer.get_file_hash
get_file_hash(st, file_path) ==
    LET r == read_file(st, file_path)
    IN IF r.raised # "" THEN [st |-> r.st, raised |-> r.raised, hash |-> <<>>]
       ELSE IF ~r.found THEN [st |-> r.st, raised |-> "ValueError", hash |-> <<>>]
       ELSE [st |-> r.st, raised |-> "", hash |-> md5(r.content)]

\* The dependencies of the AnalysisResult: PythonAnalyzer passes the list
\* _build_dependencies built; ReactAnalyzer builds it and does not pass it to
\* WebAnalysisResult, whose __init__ sets dependencies=[].
result_dependencies(cls, content) ==
    IF cls = "PythonAnalyzer" /\ content.syntax_ok THEN content.imports ELSE <<>>

\* Blocks kept although the text did not parse.
result_blocks_despite_errors(cls, content) ==
    IF cls = "PythonAnalyzer" THEN (IF content.syntax_ok THEN content.defs ELSE 1)
    ELSE 0

\* The number of blocks of the AnalysisResult: PythonAnalyzer has one per
\* function and class of text that parsed, and none in the result of its
\* except SyntaxError branch; WebAnalysisResult.__init__ sets blocks=[].
result_blocks(cls, content) ==
    IF cls = "PythonAnalyzer" /\ content.syntax_ok THEN content.defs ELSE 0

\* The number of errors of the AnalysisResult: the one diagnostic of the except
\* SyntaxError branch of PythonAnalyzer, none anywhere else.
result_errors(cls, content) ==
    IF cls = "PythonAnalyzer" /\ ~content.syntax_ok THEN 1 ELSE 0

\* What the analysis of a text raises besides SyntaxError: ast.parse its
\* RecursionError, _analyze_functions an AttributeError (PythonAnalyzer),
\* _find_closing_brace an IndexError (ReactAnalyzer); "" if nothing.
analysis_fault(cls, content) ==
    CASE cls = "PythonAnalyzer" /\ content.fault = "nested" -> "RecursionError"
      [] cls = "PythonAnalyzer" /\ content.fault = "decorator" -> "AttributeError"
      [] cls = "ReactAnalyzer" /\ content.fault = "brace" -> "IndexError"
      [] OTHER -> ""

\* How a call of analyze_file ends.
Analysis(st, raised, errors, blocks, dependencies) ==
    [st |-> st, raised |-> raised, errors |-> errors, blocks |-> blocks,
     dependencies |-> dependencies]

\* analyze_file of PythonAnalyzer and ReactAnalyzer: `if not content` raises for
\* a missing and for an empty file; what the parse or the analysis raises
\* besides SyntaxError gets out; text that does not parse (SyntaxError) gives a
\* result with one error, no blocks and no dependencies.
analyze_file(st, file_path) ==
    LET r  == read_file(st, file_path)
        s2 == [r.st EXCEPT !.analyzed = Append(@, file_path)]
    IN IF r.raised # "" THEN Analysis(s2, r.raised, 0, 0, <<>>)
       ELSE IF ~r.found \/ r.content.size = 0
       THEN Analysis(s2, "ValueError", 0, 0, <<>>)
       ELSE IF analysis_fault(st.analyzer, r.content) # ""
       THEN Analysis(s2, analysis_fault(st.analyzer, r.content), 0, 0, <<>>)
       ELSE Analysis(s2, "", result_errors(st.analyzer, r.content),
                     result_blocks(st.analyzer, r.content),
                     result_dependencies(st.analyzer, r.content))

RECURSIVE analyze_dependencies_memo_first(_, _, _)
RECURSIVE analyze_dependencies(_, _, _)
RECURSIVE walk_dependencies(_, _, _, _, _)
RECURSIVE analyze_dependencies_no_memo_write(_, _, _)
RECURSIVE walk_dependencies_no_exists(_, _, _, _, _)

\* A loop that adds a local dependency without asking whether its path exists.
walk_dependencies_no_exists(st, deps, i, depth, acc) ==
    IF i > Len(deps) THEN [st |-> st, ret |-> acc, raised |-> ""]
    ELSE LET dep == deps[i]
         IN IF dep.is_local /\ dep.import_path # ""
            THEN IF depth > 1 /\ dep.import_path \in st.on_disk
                 THEN LET nested == analyze_dependencies(st, dep.import_path, depth - 1)
                      IN IF nested.raised # ""
                         THEN [st |-> nested.st, ret |-> acc, raised |-> nested.raised]
                         ELSE walk_dependencies_no_exists(nested.st, deps, i + 1, depth,
                                  acc \cup {dep.import_path} \cup nested.ret)
                 ELSE walk_dependencies_no_exists(st, deps, i + 1, depth,
                                                  acc \cup {dep.import_path})
            ELSE walk_dependencies_no_exists(st, deps, i + 1, depth, acc)

\* The loop over analysis.dependencies from its i-th element, `acc` being the
\* set built so far: a local dependency whose resolved path exists is added,
\* and at depth > 1 so is what analyze_dependencies returns for it.
walk_dependencies(st, deps, i, depth, acc) ==
    IF i > Len(deps) THEN [st |-> st, ret |-> acc, raised |-> ""]
    ELSE LET dep == deps[i]
         IN IF dep.is_local /\ dep.import_path # "" /\ dep.import_path \in st.on_disk
            THEN IF depth > 1
                 THEN LET nested == analyze_dependencies(st, dep.import_path, depth - 1)
                      IN IF nested.raised # ""
                         THEN [st |-> nested.st, ret |-> acc, raised |-> nested.raised]
                         ELSE walk_dependencies(nested.st, deps, i + 1, depth,
                                  acc \cup {dep.import_path} \cup nested.ret)
                 ELSE walk_dependencies(st, deps, i + 1, depth,
                                        acc \cup {dep.import_path})
            ELSE walk_dependencies(st, deps, i + 1, depth, acc)

\* An analyze_dependencies that looks its memo table up before it tests depth.
analyze_dependencies_memo_first(st, file_path, depth) ==
    IF file_path \in DOMAIN st.dependency_cache
    THEN [st |-> st, ret |-> st.dependency_cache[file_path], raised |-> ""]
    ELSE IF depth < 1 THEN [st |-> st, ret |-> {}, raised |-> ""]
    ELSE LET analysis == analyze_file(st, file_path)
         IN IF analysis.raised # ""
            THEN [st |-> analysis.st, ret |-> {}, raised |-> analysis.raised]
            ELSE LET w == walk_dependencies(analysis.st, analysis.dependencies,
                                            1, depth, {})
                 IN IF w.raised # "" THEN [st |-> w.st, ret |-> {}, raised |-> w.raised]
                    ELSE [st |-> [w.st EXCEPT
                                    !.dependency_cache = Put(@, file_path, w.ret)],
                          ret |-> w.ret, raised |-> ""]

\* An analyze_dependencies that returns its set without memoizing it.
analyze_dependencies_no_memo_write(st, file_path, depth) ==
    IF depth < 1 THEN [st |-> st, ret |-> {}, raised |-> ""]
    ELSE IF file_path \in DOMAIN st.dependency_cache
    THEN [st |-> st, ret |-> st.dependency_cache[file_path], raised |-> ""]
    ELSE LET analysis == analyze_file(st, file_path)
         IN IF analysis.raised # ""
            THEN [st |-> analysis.st, ret |-> {}, raised |-> analysis.raised]
            ELSE LET w == walk_dependencies(analysis.st, analysis.dependencies,
                                            1, depth, {})
                 IN IF w.raised # "" THEN [st |-> w.st, ret |-> {}, raised |-> w.raised]
                    ELSE [st |-> w.st, ret |-> w.ret, raised |-> ""]

\* BaseAnalyzer.analyze_dependencies.
analyze_dependencies(st, file_path, depth) ==
    IF depth < 1 THEN [st |-> st, ret |-> {}, raised |-> ""]
    ELSE IF file_path \in DOMAIN st.dependency_cache
    THEN [st |-> st, ret |-> st.dependency_cache[file_path], raised |-> ""]
    ELSE LET analysis == analyze_file(st, file_path)
         IN IF analysis.raised # ""
            THEN [st |-> analysis.st, ret |-> {}, raised |-> analysis.raised]
            ELSE LET w == walk_dependencies(analysis.st, analysis.dependencies,
                                            1, depth, {})
                 IN IF w.raised # "" THEN [st |-> w.st, ret |-> {}, raised |-> w.raised]
                    ELSE [st |-> [w.st EXCEPT
                                    !.dependency_cache = Put(@, file_path, w.ret)],
                          ret |-> w.ret, raised |-> ""]

\* The analyzer's state as the operators above read and write it.
AnalyzerState ==
    [analyzer |-> analyzer, disk |-> disk, on_disk |-> on_disk,
     file_cache |-> file_cache, dependency_cache |-> dependency_cache,
     analyzed |-> <<>>]

NoCall == [op |-> "none", file |-> "", depth |-> 0, ret |-> {}, raised |-> "",
           analyzed |-> <<>>, wrote |-> FALSE]

DepInit ==
    /\ analyzer \in Analyzers
    /\ disk \in Workspaces
    /\ on_disk = Files
    /\ file_cache = EmptyMap
    /\ dependency_cache = EmptyMap
    /\ dlast = NoCall

\* A call analyze_dependencies(f, depth) on the analyzer: `analyzed` lists the
\* files analyze_file was called on, `wrote` tells whether a memo table changed.
AnalyzeDependencies(f, depth) ==
    LET r == analyze_dependencies(AnalyzerState, f, depth)
    IN /\ file_cache' = r.st.file_cache
       /\ dependency_cache' = r.st.dependency_cache
       /\ dlast' = [op |-> "analyze_dependencies", file |-> f, depth |-> depth,
                    ret |-> r.ret, raised |-> r.raised,
                    analyzed |-> r.st.analyzed,
                    wrote |-> (r.st.dependency_cache # dependency_cache
                               \/ r.st.file_cache # file_cache)]
       /\ UNCHANGED <<analyzer, disk, on_disk, cacheVars, orchVars, walkVars, rlast, pureVars, workers>>

\* BaseAnalyzer.clear_caches
ClearCaches ==
    /\ file_cache' = EmptyMap
    /\ dependency_cache' = EmptyMap
    /\ dlast' = [NoCall EXCEPT !.op = "clear_caches"]
    /\ UNCHANGED <<analyzer, disk, on_disk, cacheVars, orchVars, walkVars, rlast, pureVars, workers>>

\* A file of the workspace is deleted, or written back.
DeleteFile(f) ==
    /\ f \in on_disk
    /\ on_disk' = on_disk \ {f}
    /\ UNCHANGED <<analyzer, disk, file_cache, dependency_cache, dlast, cacheVars,
                   orchVars, walkVars, rlast, pureVars, workers>>

CreateFile(f) ==
    /\ f \notin on_disk
    /\ on_disk' = on_disk \cup {f}
    /\ UNCHANGED <<analyzer, disk, file_cache, dependency_cache, dlast, cacheVars,
                   orchVars, walkVars, rlast, pureVars, workers>>

DepNext ==
    \/ \E f \in Files, depth \in Depths : AnalyzeDependencies(f, depth)
    \/ ClearCaches
    \/ \E f \in Files : DeleteFile(f)
    \/ \E f \in Files : CreateFile(f)

(***************************************************************************)
(* analyze_dependencies, one loop iteration at a time                      *)
(***************************************************************************)
\* The frames the interpreter allows before it raises RecursionError
\* (sys.getrecursionlimit(), cut down to the depths of the model).
MaxStack == MaxDepth + 2

NoFrame == [file |-> "", depth |-> 0, deps |-> <<>>, i |-> 1, acc |-> {}]
NoResult == [done |-> FALSE, ret |-> {}, raised |-> ""]
Returned(ret) == [done |-> TRUE, ret |-> ret, raised |-> ""]
Raised(e) == [done |-> TRUE, ret |-> {}, raised |-> e]

\* A nested call that passes its own depth on.
nested_depth_same(depth) == depth

\* The depth analyze_dependencies passes to its nested call.
nested_depth(depth) == depth - 1

\* analyze_dependencies(file_path, depth) up to its loop: it returns at once for
\* depth < 1 and for a memoized path, lets the exception of analyze_file out,
\* or starts the loop over analysis.dependencies with an empty set.
Enter(file_path, depth) ==
    IF depth < 1
    THEN [kind |-> "return", ret |-> {}, st |-> AnalyzerState, frame |-> NoFrame,
          raised |-> ""]
    ELSE IF file_path \in DOMAIN dependency_cache
    THEN [kind |-> "return", ret |-> dependency_cache[file_path],
          st |-> AnalyzerState, frame |-> NoFrame, raised |-> ""]
    ELSE LET analysis == analyze_file(AnalyzerState, file_path)
         IN IF analysis.raised # ""
            THEN [kind |-> "raise", ret |-> {}, st |-> analysis.st,
                  frame |-> NoFrame, raised |-> analysis.raised]
            ELSE [kind |-> "loop", ret |-> {}, st |-> analysis.st,
                  frame |-> [file |-> file_path, depth |-> depth,
                             deps |-> analysis.dependencies, i |-> 1, acc |-> {}],
                  raised |-> ""]

\* The stack without its top frame.
Pop(stk) == SubSeq(stk, 1, Len(stk) - 1)

\* The top frame replaced.
SetTop(stk, frame) == [stk EXCEPT ![Len(stk)] = frame]

\* The caller's frame after a nested call returned `ret`: the set is merged
\* and the loop goes on with the next dependency.
Resume(frame, ret) == [frame EXCEPT !.acc = @ \cup ret, !.i = @ + 1]

WalkIdle ==
    /\ stack = <<>>
    /\ wcall = [file |-> "", depth |-> 0, reads0 |-> EmptyMap, memo0 |-> EmptyMap]
    /\ wret = NoResult

WalkInit ==
    /\ analyzer \in Analyzers
    /\ disk \in Workspaces
    /\ on_disk = Files
    /\ file_cache = EmptyMap
    /\ dependency_cache = EmptyMap
    /\ dlast = NoCall
    /\ WalkIdle

\* A caller calls analyze_dependencies(f, depth) while no call is in progress.
WalkCall(f, depth) ==
    LET e == Enter(f, depth)
    IN /\ stack = <<>>
       /\ wcall' = [file |-> f, depth |-> depth, reads0 |-> file_cache,
                    memo0 |-> dependency_cache]
       /\ file_cache' = e.st.file_cache
       /\ stack' = IF e.kind = "loop" THEN <<e.frame>> ELSE <<>>
       /\ wret' = CASE e.kind = "return" -> Returned(e.ret)
                    [] e.kind = "raise"  -> Raised(e.raised)
                    [] OTHER             -> NoResult
       /\ UNCHANGED <<analyzer, disk, on_disk, dependency_cache, dlast, cacheVars,
                      orchVars, rlast, pureVars, workers>>

\* One iteration of the loop of the innermost call: a local dependency whose
\* path exists is added, and at depth > 1 analyze_dependencies is called on it
\* with the nested depth; an exception of the nested call unwinds every frame.
WalkIter ==
    /\ stack # <<>>
    /\ LET top == stack[Len(stack)]
       IN /\ top.i <= Len(top.deps)
          /\ LET dep   == top.deps[top.i]
                 added == [top EXCEPT !.acc = @ \cup {dep.import_path}]
             IN IF ~(dep.is_local /\ dep.import_path # ""
                      /\ dep.import_path \in on_disk)
                THEN /\ stack' = SetTop(stack, [top EXCEPT !.i = @ + 1])
                     /\ UNCHANGED <<file_cache, wret>>
                ELSE IF top.depth <= 1
                THEN /\ stack' = SetTop(stack, [added EXCEPT !.i = @ + 1])
                     /\ UNCHANGED <<file_cache, wret>>
                ELSE IF Len(stack) >= MaxStack
                THEN /\ stack' = <<>>
                     /\ wret' = Raised("RecursionError")
                     /\ UNCHANGED file_cache
                ELSE LET e == Enter(dep.import_path, nested_depth(top.depth))
                     IN /\ file_cache' = e.st.file_cache
                        /\ stack' = CASE e.kind = "return" ->
                                           SetTop(stack, Resume(added, e.ret))
                                      [] e.kind = "raise" -> <<>>
                                      [] OTHER ->
                                           Append(SetTop(stack, added), e.frame)
                        /\ wret' = IF e.kind = "raise" THEN Raised(e.raised)
                                   ELSE wret
    /\ UNCHANGED <<analyzer, disk, on_disk, dependency_cache, dlast, wcall,
                   cacheVars, orchVars, rlast, pureVars, workers>>

\* The loop of the innermost call is over: it memoizes its set under its path
\* and returns it, to the frame that called it or to the outermost caller.
WalkReturn ==
    /\ stack # <<>>
    /\ LET top == stack[Len(stack)]
       IN /\ top.i > Len(top.deps)
          /\ dependency_cache' = Put(dependency_cache, top.file, top.acc)
          /\ IF Len(stack) = 1
             THEN /\ stack' = <<>>
                  /\ wret' = Returned(top.acc)
             ELSE /\ stack' = SetTop(Pop(stack),
                                     Resume(stack[Len(stack) - 1], top.acc))
                  /\ UNCHANGED wret
    /\ UNCHANGED <<analyzer, disk, on_disk, file_cache, dlast, wcall, cacheVars,
                   orchVars, rlast, pureVars, workers>>

WalkNext ==
    \/ \E f \in Files, depth \in Depths : WalkCall(f, depth)
    \/ WalkIter
    \/ WalkReturn

(***************************************************************************)
(* read_file, get_file_hash and analyze_file on a file that changes        *)
(***************************************************************************)
\* The file the environment rewrites and the caller asks about.
Edited == {"a.py"}

\* What the environment writes into it.
Written ==
    {Source(<<Local("b.py")>>), Revised(Source(<<Local("b.py")>>)), EmptyFile,
     BadSyntax, Plain, AtLimit(<<>>), TooLarge(<<>>), Undecodable, Nested,
     Decorated, Braced}

NoRun ==
    [op |-> "none", file |-> "", depth |-> 0, raised |-> "", found |-> FALSE,
     content |-> EmptyFile, hash |-> <<>>, errors |-> 0, blocks |-> 0,
     dependencies |-> <<>>, deps |-> {}, touched |-> FALSE, seen |-> EmptyFile]

\* The record of a call `op` on `file_path` that raised `raised`; `seen` is
\* what the file held on disk at the call.
Run(op, file_path, raised) ==
    [NoRun EXCEPT !.op = op, !.file = file_path, !.raised = raised,
                  !.seen = IF file_path \in on_disk THEN disk[file_path]
                           ELSE EmptyFile]

ReadIdle == rlast = NoRun

ReadInit ==
    /\ analyzer \in Analyzers
    /\ disk = [f \in Files |-> CASE f = "a.py" -> Source(<<Local("b.py")>>)
                                 [] f = "b.py" -> Source(<<>>)
                                 [] OTHER      -> Plain]
    /\ on_disk = Files
    /\ file_cache = EmptyMap
    /\ dependency_cache = EmptyMap
    /\ dlast = NoCall
    /\ ReadIdle

\* A caller calls read_file(f).
ReadFile(f) ==
    LET r == read_file(AnalyzerState, f)
    IN /\ file_cache' = r.st.file_cache
       /\ rlast' = [Run("read_file", f, r.raised) EXCEPT
                       !.found = r.found, !.content = r.content,
                       !.touched = r.touched]
       /\ UNCHANGED <<analyzer, disk, on_disk, dependency_cache, dlast, cacheVars,
                      orchVars, walkVars, pureVars, workers>>

\* A caller calls get_file_hash(f).
GetFileHash(f) ==
    LET r == get_file_hash(AnalyzerState, f)
    IN /\ file_cache' = r.st.file_cache
       /\ rlast' = [Run("get_file_hash", f, r.raised) EXCEPT !.hash = r.hash]
       /\ UNCHANGED <<analyzer, disk, on_disk, dependency_cache, dlast, cacheVars,
                      orchVars, walkVars, pureVars, workers>>

\* A caller calls analyze_file(f) of the analyzer.
RunAnalyzeFile(f) ==
    LET a == analyze_file(AnalyzerState, f)
    IN /\ file_cache' = a.st.file_cache
       /\ rlast' = [Run("analyze_file", f, a.raised) EXCEPT
                       !.found = (a.raised = ""), !.errors = a.errors,
                       !.blocks = a.blocks, !.dependencies = a.dependencies]
       /\ UNCHANGED <<analyzer, disk, on_disk, dependency_cache, dlast, cacheVars,
                      orchVars, walkVars, pureVars, workers>>

\* A caller calls analyze_dependencies(f, depth).
RunAnalyzeDependencies(f, depth) ==
    LET r == analyze_dependencies(AnalyzerState, f, depth)
    IN /\ file_cache' = r.st.file_cache
       /\ dependency_cache' = r.st.dependency_cache
       /\ rlast' = [Run("analyze_dependencies", f, r.raised) EXCEPT
                       !.depth = depth, !.found = (r.raised = ""),
                       !.deps = r.ret]
       /\ UNCHANGED <<analyzer, disk, on_disk, dlast, cacheVars, orchVars,
                      walkVars, pureVars, workers>>

\* The environment writes the file.
WriteFile(f, content) ==
    /\ disk[f] # content \/ f \notin on_disk
    /\ disk' = [disk EXCEPT ![f] = content]
    /\ on_disk' = on_disk \cup {f}
    /\ UNCHANGED <<analyzer, file_cache, dependency_cache, dlast, rlast, cacheVars,
                   orchVars, walkVars, pureVars, workers>>

\* A caller calls clear_caches().
RunClearCaches ==
    /\ file_cache' = EmptyMap
    /\ dependency_cache' = EmptyMap
    /\ rlast' = Run("clear_caches", "", "")
    /\ UNCHANGED <<analyzer, disk, on_disk, dlast, cacheVars, orchVars, walkVars, pureVars, workers>>

ReadNext ==
    \/ \E f \in Edited : ReadFile(f)
    \/ \E f \in Edited : GetFileHash(f)
    \/ \E f \in Edited : RunAnalyzeFile(f)
    \/ \E f \in Edited, depth \in 0 .. 1 : RunAnalyzeDependencies(f, depth)
    \/ \E f \in Edited, content \in Written : WriteFile(f, content)
    \/ \E f \in Edited : DeleteFile(f)
    \/ RunClearCaches

(***************************************************************************)
(* ClaudeHelper (cli.py) and ProgressTracker (utils/progress.py)           *)
(***************************************************************************)
\* The most files a batch is called with.
MaxBatch == 2

\* ClaudeHelper.analyzers: the dict built in __init__, keyed by suffix.
analyzers ==
    [k \in {".py", ".tsx", ".jsx", ".ts"} |->
        IF k = ".py" THEN "PythonAnalyzer" ELSE "ReactAnalyzer"]

\* The subscript of self.analyzers[0]: the int 0, which equals no str key.
IndexZero == "0"

\* The files the orchestrator is asked about, and Path.suffix of each.
OrchFiles == Files \cup {"n.txt"}
Suffix(file_path) == IF file_path = "n.txt" THEN ".txt" ELSE ".py"

\* The analyzer instance under `key`, as the state read_file works on.
Instance(key) ==
    [analyzer |-> analyzers[key], disk |-> disk, on_disk |-> on_disk,
     file_cache |-> acache[key], dependency_cache |-> EmptyMap, analyzed |-> <<>>]

\* The dict analyze_file builds: its "details" is the AnalysisResult object.
result_dict == D_OBJ

\* How a call of ClaudeHelper.analyze_file ends: what it raised (or ""), whether
\* the result came from the cache, the calls made to an analyzer and to the LLM
\* client, and the store and the analyzers' read caches afterwards.
Outcome(raised, from_cache, analyzer_calls, llm_calls, t, ac) ==
    [raised |-> raised, from_cache |-> from_cache,
     analyzer_calls |-> analyzer_calls, llm_calls |-> llm_calls,
     table |-> t, acache |-> ac]

\* ClaudeHelper.analyze_file from its cache lookup on (lines 40-68), `ac` being
\* the read caches after line 34 and `content` what was read.  A store that does
\* not answer makes cache.get and cache.set raise; nothing here catches it.
analyze_file_cached(file_path, content, ac, victims) ==
    IF config.enabled /\ ~store_ok
    THEN Outcome("OperationalError", FALSE, 0, 0, table, ac)
    ELSE LET cached == get(table, config, clock, file_path, md5(content))
         IN IF cached.some /\ cached.v.entries > 0
            THEN Outcome("", TRUE, 0, 0, table, ac)
            ELSE IF Suffix(file_path) \notin DOMAIN analyzers
            THEN Outcome("ValueError", FALSE, 0, 0, table, ac)
            ELSE LET a   == analyze_file(
                               [Instance(Suffix(file_path)) EXCEPT
                                    !.file_cache = ac[Suffix(file_path)]],
                               file_path)
                     ac2 == [ac EXCEPT ![Suffix(file_path)] = a.st.file_cache]
                 IN IF a.raised # ""
                    THEN Outcome(a.raised, FALSE, 1, 0, table, ac2)
                    ELSE Outcome(set_raises(config, result_dict), FALSE, 1, 1,
                                 set_table(table, config, clock, file_path,
                                           md5(content), result_dict, victims),
                                 ac2)

\* ClaudeHelper.analyze_file, reading the file through self.analyzers[key]
\* (lines 31-38): a key that is not in the dict raises KeyError.
analyze_file_via(key, file_path, victims) ==
    IF key \notin DOMAIN analyzers
    THEN Outcome("KeyError", FALSE, 0, 0, table, acache)
    ELSE LET r  == read_file(Instance(key), file_path)
             ac == [acache EXCEPT ![key] = r.st.file_cache]
         IN IF r.raised # "" THEN Outcome(r.raised, FALSE, 0, 0, table, ac)
            ELSE IF ~r.found \/ r.content.size = 0
            THEN Outcome("ValueError", FALSE, 0, 0, table, ac)
            ELSE analyze_file_cached(file_path, r.content, ac, victims)

\* ClaudeHelper.analyze_file: it reads through self.analyzers[0].
orch_analyze_file(file_path, victims) ==
    analyze_file_via(IndexZero, file_path, victims)

\* The rows the eviction check of a cache.set may delete, when it runs.
orch_victims ==
    IF config.enabled /\ store_ok THEN cleanup_victims(table, config) ELSE {{}}

\* ProgressTracker.__init__
new_tracker(total_files) ==
    [total_files |-> total_files, tasks |-> <<>>, current_task |-> 0,
     stopped |-> FALSE]

\* AnalysisTask(file_path, start_time): end_time None (-1 here), status
\* "pending"; `completions` counts the times complete_file set its end_time.
new_task(file_path) ==
    [file_path |-> file_path, start_time |-> clock, end_time |-> -1,
     status |-> "pending", error |-> "", completions |-> 0]

\* ProgressTracker.start_file: current_task is the task appended.
start_file(tr, file_path) ==
    [tr EXCEPT !.tasks = Append(@, new_task(file_path)),
               !.current_task = Len(tr.tasks) + 1]

\* ProgressTracker.complete_file: the current task gets its end_time, status and
\* error; the progress stops when as many tasks have ended as there are files.
complete_file(tr, status, error) ==
    IF tr.current_task = 0 THEN tr
    ELSE LET done == [tr EXCEPT
                        !.tasks[tr.current_task].end_time = clock,
                        !.tasks[tr.current_task].status = status,
                        !.tasks[tr.current_task].error = error,
                        !.tasks[tr.current_task].completions = @ + 1]
             completed == Cardinality({i \in 1 .. Len(done.tasks) :
                                          done.tasks[i].end_time # -1})
         IN [done EXCEPT !.stopped = @ \/ (completed = done.total_files)]

\* A batch loop that lets the exception of analyze_file out: the call is made
\* outside the try, so the first failure ends the generator.
next_pc_no_try(raised, i, n) ==
    IF raised # "" \/ i >= n THEN "done" ELSE "loop"

\* batch_analyze after the file numbered i of n: the try/except of the loop
\* body catches what analyze_file raised, and the loop goes on to the next file.
next_pc(raised, i, n) == IF i >= n THEN "done" ELSE "loop"

\* The lists batch_analyze is called with.
BatchInputs ==
    UNION {[1 .. n -> OrchFiles] : n \in 0 .. MaxBatch}

NoAnalyze ==
    [op |-> "none", file |-> "", raised |-> "", from_cache |-> FALSE,
     analyzer_calls |-> 0, llm_calls |-> 0, store_ok |-> TRUE, repeat |-> FALSE]

\* The workspace of the orchestrator: a.py and c.py can be analyzed, b.py is
\* over the size limit, n.txt has no analyzer; a.py may be missing.
OrchDisk ==
    [f \in OrchFiles |-> CASE f = "a.py" -> Source(<<Local("b.py")>>)
                           [] f = "b.py" -> TooLarge(<<>>)
                           [] f = "c.py" -> Source(<<External>>)
                           [] OTHER      -> Source(<<>>)]

OrchInit ==
    /\ store_ok \in BOOLEAN
    /\ acache = [k \in DOMAIN analyzers |-> EmptyMap]
    /\ files = <<>>
    /\ pc = "idle"
    /\ idx = 0
    /\ tracker = new_tracker(0)
    /\ attempted = <<>>
    /\ yielded = 0
    /\ olast = NoAnalyze
    /\ table = {}
    /\ clock = 0
    /\ config \in [enabled : BOOLEAN, max_size : {1}]
    /\ last = NoOp
    /\ analyzer = "PythonAnalyzer"
    /\ disk = OrchDisk
    /\ on_disk \in {OrchFiles, OrchFiles \ {"a.py"}}
    /\ file_cache = EmptyMap
    /\ dependency_cache = EmptyMap
    /\ dlast = NoCall
    /\ WalkIdle
    /\ ReadIdle

\* The record of an analyze_file call; `repeat` tells that the call before it
\* was on the same file.
Analyzed(file_path, o) ==
    [op |-> "analyze_file", file |-> file_path, raised |-> o.raised,
     from_cache |-> o.from_cache, analyzer_calls |-> o.analyzer_calls,
     llm_calls |-> o.llm_calls, store_ok |-> store_ok,
     repeat |-> (olast.op = "analyze_file" /\ olast.file = file_path)]

\* main with --file: one call of ClaudeHelper.analyze_file.
AnalyzeFile(f) ==
    \E victims \in orch_victims :
        LET o == orch_analyze_file(f, victims)
        IN /\ pc \in {"idle", "done"}
           /\ table' = o.table
           /\ acache' = o.acache
           /\ olast' = Analyzed(f, o)
           /\ UNCHANGED <<clock, config, last, depVars, walkVars, rlast, store_ok, files, pc, idx,
                          tracker, attempted, yielded, pureVars, workers>>

\* batch_analyze(fs): tracker = ProgressTracker(len(files)).
BatchBegin(fs) ==
    /\ pc = "idle"
    /\ files' = fs
    /\ tracker' = new_tracker(Len(fs))
    /\ idx' = 0
    /\ pc' = next_pc("", 0, Len(fs))
    /\ UNCHANGED <<cacheVars, depVars, walkVars, rlast, store_ok, acache, attempted, yielded, olast, pureVars, workers>>

\* The loop takes the next file: tracker.start_file(str(file)).
StartFile ==
    /\ pc = "loop"
    /\ idx' = idx + 1
    /\ tracker' = start_file(tracker, files[idx + 1])
    /\ pc' = "started"
    /\ UNCHANGED <<cacheVars, depVars, walkVars, rlast, store_ok, acache, files, attempted, yielded,
                   olast, pureVars, workers>>

\* The rest of the loop body: analyze_file, then complete_file("success") and
\* the yield, or complete_file("error", str(e)).
FinishFile ==
    \E victims \in orch_victims :
        LET f == files[idx]
            o == orch_analyze_file(f, victims)
        IN /\ pc = "started"
           /\ table' = o.table
           /\ acache' = o.acache
           /\ olast' = Analyzed(f, o)
           /\ attempted' = Append(attempted, f)
           /\ tracker' = IF o.raised = ""
                         THEN complete_file(tracker, "success", "")
                         ELSE complete_file(tracker, "error", o.raised)
           /\ yielded' = IF o.raised = "" THEN yielded + 1 ELSE yielded
           /\ pc' = next_pc(o.raised, idx, Len(files))
           /\ UNCHANGED <<clock, config, last, depVars, walkVars, rlast, store_ok, files, idx, pureVars, workers>>

\* The sqlite store stops answering, or answers again.
StoreFlips ==
    /\ store_ok' = ~store_ok
    /\ UNCHANGED <<cacheVars, depVars, walkVars, rlast, acache, files, pc, idx, tracker, attempted,
                   yielded, olast, pureVars, workers>>

OrchNext ==
    \/ \E f \in OrchFiles : AnalyzeFile(f)
    \/ \E fs \in BatchInputs : BatchBegin(fs)
    \/ StartFile
    \/ FinishFile
    \/ StoreFlips

(***************************************************************************)
(* ReactAnalyzer._find_closing_brace                                       *)
(*                                                                         *)
(* A text is a sequence of characters; an offset is counted from 0, as in  *)
(* Python, so content[i] there is content[i + 1] here.                     *)
(***************************************************************************)
\* The longest text the model scans.
MaxLen == 4

\* The characters that matter to the scan, and one that does not.
Chars == {"{", "}", "x"}

\* The texts of at most MaxLen characters.
Contents == UNION {[1 .. n -> Chars] : n \in 0 .. MaxLen}

RECURSIVE scan_braces(_, _, _)

\* The loop of _find_closing_brace from offset i with `open` braces on its
\* stack: "{" is pushed; on "}" the stack is popped (list.pop raises
\* IndexError on an empty list) and the offset past it is returned once the
\* stack is empty; at the end of the text len(content) is returned.
scan_braces(content, i, open) ==
    IF i >= Len(content) THEN [ret |-> Len(content), raised |-> ""]
    ELSE LET char == content[i + 1]
         IN IF char = "{" THEN scan_braces(content, i + 1, open + 1)
            ELSE IF char = "}"
            THEN IF open = 0 THEN [ret |-> 0, raised |-> "IndexError"]
                 ELSE IF open - 1 = 0 THEN [ret |-> i + 1, raised |-> ""]
                 ELSE scan_braces(content, i + 1, open - 1)
            ELSE scan_braces(content, i + 1, open)

\* ReactAnalyzer._find_closing_brace(content, start)
find_closing_brace(content, start) == scan_braces(content, start, 0)

NoBrace == [op |-> "none", content |-> <<>>, start |-> 0, ret |-> 0, raised |-> ""]

BraceIdle == brace = NoBrace

\* _find_closing_brace is called on a text, at an offset within it (its callers
\* pass the offset of a pattern match).
FindClosingBrace(content, start) ==
    /\ brace' = [op |-> "_find_closing_brace", content |-> content, start |-> start,
                 ret |-> find_closing_brace(content, start).ret,
                 raised |-> find_closing_brace(content, start).raised]
    /\ UNCHANGED <<cacheVars, depVars, orchVars, walkVars, rlast, cx, workers>>

BraceNext ==
    \E content \in Contents : \E start \in 0 .. Len(content) :
        FindClosingBrace(content, start)

(***************************************************************************)
(* PythonAnalyzer._calculate_complexity and _collect_warnings              *)
(*                                                                         *)
(* A function declaration is its ast: a node has a kind, the line it       *)
(* starts at and its child nodes in source order (for a try statement its  *)
(* body, then its handlers).  A BoolOp has `n` operands, an ExceptHandler  *)
(* the name of the exception it catches ("" for a bare except), a          *)
(* FunctionDef `n` default values that are list, dict or set displays.     *)
(***************************************************************************)
\* The most statements in the body of a function of the model.
MaxStmts == 2

Node(kind, children) ==
    [kind |-> kind, lineno |-> 0, children |-> children, n |-> 0, type |-> ""]

Pass == Node("Pass", <<>>)
BoolOp(n) == [Node("BoolOp", <<>>) EXCEPT !.n = n]
ExceptHandler(type) == [Node("ExceptHandler", <<Pass>>) EXCEPT !.type = type]
FunctionDef(body, defaults) == [Node("FunctionDef", body) EXCEPT !.n = defaults]

\* Statements without a body: pass, assert, raise, and an expression with a
\* two-way or a three-way boolean operator (a or b, a or b or c).
Simple == {Pass, Node("Assert", <<>>), Node("Raise", <<>>), BoolOp(2), BoolOp(3)}

\* The handlers of a try statement: none (try/finally), one or two.
HandlerTypes == {"", "Exception", "ValueError"}
HandlerLists ==
    {<<>>} \cup {<<ExceptHandler(t)>> : t \in HandlerTypes}
           \cup {<<ExceptHandler(t), ExceptHandler(u)>> : t, u \in HandlerTypes}

\* The statements of the model: simple ones, if/while/for/with around one
\* simple statement, try statements, and an if and a try nested in each other.
Statements ==
    Simple
    \cup {Node(k, <<s>>) : k \in {"If", "While", "For", "With"}, s \in Simple}
    \cup {Node("Try", <<Pass>> \o hs) : hs \in HandlerLists}
    \cup {Node("If", <<Node("Try", <<Pass, ExceptHandler("Exception")>>)>>),
          Node("Try", <<Node("If", <<Pass>>), ExceptHandler("Exception")>>)}

Bodies == UNION {[1 .. k -> Statements] : k \in 0 .. MaxStmts}

RECURSIVE Number(_, _)
RECURSIVE NumberAll(_, _)

\* The parser's line numbers for text laid out with one node a line: a node
\* starts at `line`, its children on the lines after it.
Number(node, line) ==
    LET kids == NumberAll(node.children, line + 1)
    IN [node |-> [node EXCEPT !.lineno = line, !.children = kids.nodes],
        next |-> kids.next]

NumberAll(nodes, line) ==
    IF nodes = <<>> THEN [nodes |-> <<>>, next |-> line]
    ELSE LET h == Number(Head(nodes), line)
             t == NumberAll(Tail(nodes), h.next)
         IN [nodes |-> <<h.node>> \o t.nodes, next |-> t.next]

\* ast.parse of a function declaration that starts at line 1.
Functions == {Number(FunctionDef(body, d), 1).node : body \in Bodies, d \in 0 .. 1}

RECURSIVE walk(_)
\* ast.walk: the nodes from those of `todo` down, breadth first.
walk(todo) ==
    IF todo = <<>> THEN <<>>
    ELSE <<Head(todo)>> \o walk(Tail(todo) \o Head(todo).children)

\* What a node adds to the complexity: 1 for If, While, For, Try,
\* ExceptHandler, With, Assert and Raise, len(values) - 1 for a BoolOp.
complexity_of(child) ==
    IF child.kind \in {"If", "While", "For", "Try", "ExceptHandler", "With",
                       "Assert", "Raise"}
    THEN 1
    ELSE IF child.kind = "BoolOp" THEN child.n - 1
    ELSE 0

RECURSIVE SumOver(_, _)
SumOver(nodes, i) ==
    IF i > Len(nodes) THEN 0 ELSE complexity_of(nodes[i]) + SumOver(nodes, i + 1)

\* PythonAnalyzer._calculate_complexity(node)
calculate_complexity(node) == 1 + SumOver(walk(<<node>>), 1)

\* The warning of _collect_warnings for a node, if it has one: a broad
\* exception handler (bare or `Exception`), or a function with a mutable
\* default argument.
warning_of(node) ==
    IF node.kind = "ExceptHandler"
    THEN IF node.type = "" \/ node.type = "Exception"
         THEN <<[warning |-> "Broad exception handler", line |-> node.lineno]>>
         ELSE <<>>
    ELSE IF node.kind = "FunctionDef" /\ node.n > 0
    THEN <<[warning |-> "Mutable default argument", line |-> node.lineno]>>
    ELSE <<>>

RECURSIVE WarningsOver(_, _)
WarningsOver(nodes, i) ==
    IF i > Len(nodes) THEN <<>> ELSE warning_of(nodes[i]) \o WarningsOver(nodes, i + 1)

\* PythonAnalyzer._collect_warnings(tree)
collect_warnings(tree) == WarningsOver(walk(<<tree>>), 1)

NoScore == [op |-> "none", node |-> Pass, complexity |-> 0, warnings |-> <<>>]

ScoreIdle == cx = NoScore

\* The file holds one function declaration, parsed and not analyzed yet.
ScoreInit ==
    cx \in {[NoScore EXCEPT !.op = "parsed", !.node = fn] : fn \in Functions}

\* analyze_file on the file: _analyze_functions scores the function and
\* _collect_warnings goes over the tree.
AnalyzeFunction ==
    /\ cx.op = "parsed"
    /\ cx' = [op |-> "analyze", node |-> cx.node,
              complexity |-> calculate_complexity(cx.node),
              warnings |-> collect_warnings(cx.node)]
    /\ UNCHANGED <<cacheVars, depVars, orchVars, walkVars, rlast, brace, workers>>

ScoreNext == AnalyzeFunction

(***************************************************************************)
(* Two workers call AnalysisCache.set on the same path                     *)
(*                                                                         *)
(* A set runs in four steps: the SELECT SUM of the eviction check, its     *)
(* DELETE, the evaluation of the row to write (json.dumps, time.time), and *)
(* the INSERT OR REPLACE.  sqlite runs each statement atomically; the      *)
(* steps of the two workers interleave in every order.                     *)
(***************************************************************************)
Workers == {1, 2}

\* The path both workers cache.
RacePath == "a.py"

NotWritten == [file_path |-> "", content_hash |-> "", analysis_data |-> json_dumps(D_EMPTY),
               timestamp |-> 0, file_size |-> 0]

\* A worker about to call set(RacePath, hash, data): `total` is the sum its
\* eviction check read, `row` the row it is about to write or has written,
\* `seq` its place among the inserts, `peer` where the other worker stood
\* when this one inserted.
Caller(hash, data) ==
    [pc |-> "call", hash |-> hash, data |-> data, total |-> 0, row |-> NotWritten,
     seq |-> 0, peer |-> ""]

RaceIdle == workers = <<>>

RaceInit ==
    /\ table \in InitTables
    /\ clock = 0
    /\ config \in [enabled : BOOLEAN, max_size : MaxSizes]
    /\ last = NoOp
    /\ workers \in [Workers -> {Caller(h, d) : h \in Hashes, d \in Datas}]

\* set up to the SELECT SUM of _cleanup_if_needed: a disabled cache returns.
SelectSum(w) ==
    /\ workers[w].pc = "call"
    /\ workers' = [workers EXCEPT
                     ![w].pc = IF config.enabled THEN "cleanup" ELSE "done",
                     ![w].total = IF config.enabled THEN SumSize(table) ELSE 0]
    /\ UNCHANGED <<cacheVars, depVars, orchVars, walkVars, rlast, pureVars>>

\* The rest of _cleanup_if_needed: over the budget, the DELETE of the oldest
\* int(total_size * 0.2) rows.
DeleteOldest(w) ==
    /\ workers[w].pc = "cleanup"
    /\ \E victims \in (IF over_budget(config, workers[w].total)
                       THEN oldest_rows(table, evict_limit(workers[w].total))
                       ELSE {{}}) :
           table' = table \ victims
    /\ workers' = [workers EXCEPT ![w].pc = "values"]
    /\ UNCHANGED <<clock, config, last, depVars, orchVars, walkVars, rlast, pureVars>>

\* The arguments of the INSERT are evaluated: json.dumps may raise TypeError.
BuildRow(w) ==
    /\ workers[w].pc = "values"
    /\ workers' = IF Serializable(workers[w].data)
                  THEN [workers EXCEPT
                          ![w].pc = "insert",
                          ![w].row = new_row(clock, RacePath, workers[w].hash,
                                             workers[w].data)]
                  ELSE [workers EXCEPT ![w].pc = "raised"]
    /\ UNCHANGED <<cacheVars, depVars, orchVars, walkVars, rlast, pureVars>>

\* INSERT OR REPLACE, and set returns.
InsertRow(w) ==
    /\ workers[w].pc = "insert"
    /\ table' = insert_or_replace(table, workers[w].row)
    /\ workers' = [workers EXCEPT
                     ![w].pc = "done",
                     ![w].seq = 1 + Cardinality({v \in Workers : workers[v].seq > 0}),
                     ![w].peer = workers[CHOOSE v \in Workers : v # w].pc]
    /\ UNCHANGED <<clock, config, last, depVars, orchVars, walkVars, rlast, pureVars>>

RaceNext ==
    \/ \E w \in Workers : SelectSum(w)
    \/ \E w \in Workers : DeleteOldest(w)
    \/ \E w \in Workers : BuildRow(w)
    \/ \E w \in Workers : InsertRow(w)
    \/ \E s \in TickSteps : Tick(s)

(***************************************************************************)
(* The specifications: the cache, one analyzer, the orchestrator.  The part *)
(* a specification leaves out stays in its idle state.                     *)
(***************************************************************************)
vars == <<cacheVars, depVars, orchVars, walkVars, rlast, pureVars, workers>>

PureIdle == BraceIdle /\ ScoreIdle

CacheIdle ==
    /\ table = {}
    /\ clock = 0
    /\ config = [enabled |-> TRUE, max_size |-> 1]
    /\ last = NoOp

DepIdle ==
    /\ analyzer = "PythonAnalyzer"
    /\ disk = [f \in Files |-> EmptyFile]
    /\ on_disk = {}
    /\ file_cache = EmptyMap
    /\ dependency_cache = EmptyMap
    /\ dlast = NoCall

OrchIdle ==
    /\ store_ok = TRUE
    /\ acache = [k \in DOMAIN analyzers |-> EmptyMap]
    /\ files = <<>>
    /\ pc = "idle"
    /\ idx = 0
    /\ tracker = new_tracker(0)
    /\ attempted = <<>>
    /\ yielded = 0
    /\ olast = NoAnalyze

InitCache == CacheInit /\ DepIdle /\ OrchIdle /\ WalkIdle /\ ReadIdle /\ PureIdle /\ RaceIdle
SpecCache == InitCache /\ [][CacheNext]_vars

InitDeps == DepInit /\ CacheIdle /\ OrchIdle /\ WalkIdle /\ ReadIdle /\ PureIdle /\ RaceIdle
SpecDeps == InitDeps /\ [][DepNext]_vars

InitOrch == OrchInit /\ PureIdle /\ RaceIdle
SpecOrch == InitOrch /\ [][OrchNext]_vars

InitRead == ReadInit /\ CacheIdle /\ OrchIdle /\ WalkIdle /\ PureIdle /\ RaceIdle
SpecRead == InitRead /\ [][ReadNext]_vars

\* The interpreter runs a call in progress on: its next step is taken.
InitWalk == WalkInit /\ CacheIdle /\ OrchIdle /\ ReadIdle /\ PureIdle /\ RaceIdle
SpecWalk == InitWalk /\ [][WalkNext]_vars /\ WF_vars(WalkIter) /\ WF_vars(WalkReturn)

InitBrace == CacheIdle /\ DepIdle /\ OrchIdle /\ WalkIdle /\ ReadIdle /\ PureIdle /\ RaceIdle
SpecBrace == InitBrace /\ [][BraceNext]_vars

InitScore ==
    ScoreInit /\ BraceIdle /\ CacheIdle /\ DepIdle /\ OrchIdle /\ WalkIdle /\ ReadIdle /\ RaceIdle
SpecScore == InitScore /\ [][ScoreNext]_vars

InitRace == RaceInit /\ DepIdle /\ OrchIdle /\ WalkIdle /\ ReadIdle /\ PureIdle
SpecRace == InitRace /\ [][RaceNext]_vars

(***************************************************************************)
(* Claims about the cache                                                  *)
(***************************************************************************)
\* The rows of `t` that make get(path, hash) at time `clk` a hit.
ValidRows(t, clk, path, hash) ==
    {r \in t : /\ r.file_path = path
               /\ r.content_hash = hash
               /\ clk - 2 * r.timestamp <= 2 * ttl * 60}

\* The byte budget: max_size MB.
Budget == config.max_size * 1024 * 1024

\* C1: on an enabled cache get(path, hash) returns the stored result if and only
\* if a row of that path exists whose content_hash is hash and whose age
\* now - timestamp is at most ttl * 60 seconds; in every other case it returns
\* None, and it does not raise.
C1_GetHitIffValidRow ==
    (last.op = "get" /\ config.enabled) =>
        /\ last.raised = ""
        /\ IF ValidRows(table, last.at, last.path, last.hash) # {}
           THEN \E r \in ValidRows(table, last.at, last.path, last.hash) :
                    last.ret = Some(json_loads(r.analysis_data))
           ELSE last.ret = None

\* A get that found a row of its path and hash, older than the TTL, and missed.
C1_Witness ==
    /\ last.op = "get" /\ config.enabled /\ last.ret = None
    /\ \E r \in table : /\ r.file_path = last.path /\ r.content_hash = last.hash
                        /\ last.at - 2 * r.timestamp = 2 * ttl * 60 + 1

\* C2: on an enabled cache, after set(p, h, r) has returned, a get(p, h) made
\* before any other operation and within the TTL returns r as JSON reads it back,
\* also when that set evicted rows.
C2_SetThenGetRoundTrip ==
    (/\ last.op = "set" /\ last.raised = "" /\ config.enabled
     /\ clock - 2 * int_time(last.at) <= 2 * ttl * 60) =>
        get(table, config, clock, last.path, last.hash)
            = Some(json_loads(json_dumps(last.data)))

\* A set that evicted a row, of an int-keyed dict that comes back str-keyed.
C2_Witness ==
    /\ last.op = "set" /\ last.raised = "" /\ config.enabled
    /\ last.evicted # {}
    /\ last.data = D_INT
    /\ get(table, config, clock, last.path, last.hash).v # last.data
    /\ get(table, config, clock, last.path, last.hash).some

\* C3: the store holds at most one row per file path; a set on a path replaces
\* the row of that path: afterwards a get with another hash misses, a get with
\* the new hash returns the new result, and the row carries the timestamp and
\* the byte size of that set.
C3_OneRowPerPath ==
    /\ \A r1 \in table : \A r2 \in table : r1.file_path = r2.file_path => r1 = r2
    /\ (last.op = "set" /\ last.raised = "" /\ config.enabled) =>
        /\ \A h \in Hashes \ {last.hash} :
               get(table, config, last.at, last.path, h) = None
        /\ get(table, config, last.at, last.path, last.hash)
               = Some(json_loads(json_dumps(last.data)))
        /\ \A r \in table : r.file_path = last.path =>
               /\ r.content_hash = last.hash
               /\ r.timestamp = int_time(last.at)
               /\ r.file_size = text_len(json_dumps(last.data))

\* A set on a path stored under another hash, at another time, with another size.
C3_Witness ==
    /\ last.op = "set" /\ last.raised = "" /\ config.enabled
    /\ \E old \in last.dropped :
           /\ old.file_path = last.path
           /\ old.content_hash # last.hash
           /\ old.timestamp # int_time(last.at)
           /\ old.file_size # text_len(json_dumps(last.data))

NoRow(t, p) == \A r \in t : r.file_path # p

\* C5: invalidate(p) deletes the row of p, whatever its hash and age and whether
\* or not the cache is enabled, and leaves every other row as it was; from then
\* on get(p, h) misses for every h until a set on p.
C5_InvalidateFrame ==
    /\ [](\A p \in Paths : NoRow(table, p) =>
              \A h \in Hashes : get(table, config, clock, p, h) = None)
    /\ [][(last' # last /\ last'.op = "invalidate") =>
              /\ NoRow(table', last'.path)
              /\ \A r \in table : r.file_path # last'.path => r \in table'
              /\ table' \subseteq table
         ]_cacheVars
    /\ [][\A p \in Paths :
              (NoRow(table, p) /\ ~(last' # last /\ last'.op = "set" /\ last'.path = p))
                  => NoRow(table', p)
         ]_cacheVars

\* An invalidate on a disabled cache that deleted the row of its path and left
\* the row of another path.
C5_Witness ==
    /\ last.op = "invalidate" /\ ~config.enabled
    /\ last.dropped # {}
    /\ NoRow(table, last.path)
    /\ table # {}

\* C25 (as claimed): when the eviction check of a set finds the stored sizes
\* over the budget it deletes only about a fifth of the rows (at most the
\* entry count over five, rounded up), and the rest, about four fifths,
\* survive it.
C25_EvictsAFifthOfEntries ==
    [][(/\ last' # last
        /\ last'.op = "set"
        /\ config.enabled
        /\ SumSize(table) > Budget)
            => /\ 5 * Cardinality(last'.evicted) <= Cardinality(table) + 4
               /\ 5 * Cardinality(table \ last'.evicted) >= 4 * Cardinality(table) - 4
      ]_vars

\* C26: get and get_stats leave the store as it is, row for row: a get that
\* finds a row of its path expired or under another hash leaves it in place,
\* and a hit leaves the row's timestamp as the set wrote it.
C26_ReadsLeaveTheStore ==
    [][(last' # last /\ last'.op \in {"get", "get_stats"}) => table' = table]_vars

\* A get on an enabled cache missed, and the row of its path, expired or
\* under another hash, is still in the store.
C26_Witness ==
    /\ last.op = "get" /\ config.enabled /\ last.ret = None
    /\ \E r \in table :
           /\ r.file_path = last.path
           /\ (r.content_hash # last.hash \/ ~is_fresh(last.at, r.timestamp))

(***************************************************************************)
(* Claims about analyze_dependencies                                       *)
(***************************************************************************)
\* The local imports of f whose file is on disk.
DirectDeps(f) ==
    {disk[f].imports[i].import_path : i \in
        {j \in 1 .. Len(disk[f].imports) :
            /\ disk[f].imports[j].is_local
            /\ disk[f].imports[j].import_path \in on_disk}}

\* C9: analyze_dependencies(f, depth) with depth < 1 returns the empty set, for
\* every file and whatever is memoized, analyzes no file and writes no memo
\* table.
C9_DepthBelowOneIsEmpty ==
    (dlast.op = "analyze_dependencies" /\ dlast.depth < 1) =>
        /\ dlast.ret = {}
        /\ dlast.raised = ""
        /\ dlast.analyzed = <<>>
        /\ ~dlast.wrote

\* A call with depth < 1 on a file whose memoized result is not empty.
C9_Witness ==
    /\ dlast.op = "analyze_dependencies" /\ dlast.depth < 1
    /\ dlast.file \in DOMAIN dependency_cache
    /\ dependency_cache[dlast.file] # {}

\* C10 (as claimed, for the Python analyzer): every analyze_dependencies(f, 1)
\* that returns, returns exactly the local imports of f whose file is on disk,
\* whatever calls were made on the instance before.
C10_DepthOneIsDirect ==
    [][(/\ dlast' # dlast
        /\ dlast'.op = "analyze_dependencies"
        /\ dlast'.depth = 1
        /\ dlast'.raised = ""
        /\ analyzer = "PythonAnalyzer")
            => dlast'.ret = DirectDeps(dlast'.file)
      ]_vars

\* The existing local files reachable from f along at most d local imports.
RECURSIVE Reach(_, _)
Reach(f, d) ==
    IF d < 1 THEN {}
    ELSE DirectDeps(f) \cup UNION {Reach(g, d - 1) : g \in DirectDeps(f)}

\* C11 (as claimed, for the Python analyzer): every analyze_dependencies(f, d)
\* with d >= 2 that returns, returns exactly the existing local files reachable
\* from f along at most d local imports, whatever was resolved on the instance
\* before.
C11_DepthBoundedClosure ==
    [][(/\ dlast' # dlast
        /\ dlast'.op = "analyze_dependencies"
        /\ dlast'.depth >= 2
        /\ dlast'.raised = ""
        /\ analyzer = "PythonAnalyzer")
            => dlast'.ret = Reach(dlast'.file, dlast'.depth)
      ]_vars

\* The paths the files of the workspace import as local modules.
LocalTargets ==
    UNION {{disk[f].imports[i].import_path :
               i \in {j \in 1 .. Len(disk[f].imports) : disk[f].imports[j].is_local}}
           : f \in Files}

\* A file read_file and analyze_file accept: on disk, not empty, within the
\* size limit.
Readable(f) ==
    f \in on_disk /\ disk[f].size > 0 /\ disk[f].size <= max_file_size

\* C13: every path analyze_dependencies returns is the target of a local import
\* and a file that existed (Files; "m.py" never does), and on an instance with
\* an empty memo table it exists at the call; a local import whose file is
\* missing is dropped silently: the depth-1 call on a readable file raises
\* nothing and (Python analyzer) returns every existing local import of the
\* file, those listed after the missing one included.
C13_OnlyExistingLocalEdges ==
    [][(/\ dlast' # dlast
        /\ dlast'.op = "analyze_dependencies")
            => /\ dlast'.ret \subseteq (LocalTargets \cap Files)
               /\ dependency_cache = EmptyMap => dlast'.ret \subseteq on_disk
               /\ (/\ dlast'.depth = 1
                   /\ dlast'.file \notin DOMAIN dependency_cache
                   /\ Readable(dlast'.file))
                      => /\ dlast'.raised = ""
                         /\ analyzer = "PythonAnalyzer"
                                => dlast'.ret = DirectDeps(dlast'.file)
      ]_vars

\* A call returned a file's existing local import although the file lists,
\* before it, a non-local import and a local import whose file is missing.
C13_Witness ==
    /\ dlast.op = "analyze_dependencies" /\ dlast.raised = ""
    /\ dlast.ret # {}
    /\ \E i \in 1 .. Len(disk[dlast.file].imports) :
           /\ disk[dlast.file].imports[i].is_local
           /\ disk[dlast.file].imports[i].import_path \notin Files
           /\ \E j \in i + 1 .. Len(disk[dlast.file].imports) :
                  disk[dlast.file].imports[j].import_path \in dlast.ret
    /\ \E i \in 1 .. Len(disk[dlast.file].imports) :
           ~disk[dlast.file].imports[i].is_local

C24_AnalyzedOncePerCall ==
    dlast.op = "analyze_dependencies"
        => \A i, j \in 1 .. Len(dlast.analyzed) :
               i # j => dlast.analyzed[i] # dlast.analyzed[j]

(***************************************************************************)
(* Claims about ClaudeHelper.analyze_file and batch_analyze                *)
(***************************************************************************)
\* A file whose analysis has nothing against it: it is on disk, not empty, not
\* over the size limit, parses, and its suffix has an analyzer.
Analyzable(f) ==
    /\ f \in on_disk
    /\ disk[f].size > 0
    /\ disk[f].size <= max_file_size
    /\ disk[f].syntax_ok
    /\ Suffix(f) \in DOMAIN analyzers

\* C6: when the cache store fails while the orchestrator analyzes a file, the
\* failure counts as a miss: for a file that can be analyzed, analyze_file
\* called with the cache enabled and its store down still runs the analyzer and
\* returns the analysis, it does not raise.
C6_CacheFailureIsAMiss ==
    (/\ olast.op = "analyze_file"
     /\ config.enabled
     /\ ~olast.store_ok
     /\ Analyzable(olast.file))
        => (olast.raised = "" /\ olast.analyzer_calls = 1)

\* C7: in batch_analyze a file's failure is recorded as that file's error and
\* the loop goes on: the tasks of the tracker are the files taken so far, in
\* list order; each was completed exactly once (the one in progress not yet);
\* a failed file carries status "error" with what was raised; analyze_file was
\* called on every file before the current one whichever of them failed; and
\* the batch only ends when every file of the list was started, analyzed and
\* completed.
C7_BatchIsolation ==
    pc # "idle" =>
        LET n      == Len(tracker.tasks)
            closed == IF pc = "started" THEN idx - 1 ELSE idx
        IN /\ n = idx
           /\ idx <= Len(files)
           /\ tracker.total_files = Len(files)
           /\ \A i \in 1 .. n : tracker.tasks[i].file_path = files[i]
           /\ \A i \in 1 .. closed :
                  /\ tracker.tasks[i].completions = 1
                  /\ tracker.tasks[i].end_time # -1
                  /\ tracker.tasks[i].status \in {"success", "error"}
                  /\ tracker.tasks[i].status = "error"
                         <=> tracker.tasks[i].error # ""
           /\ pc = "started" =>
                  /\ tracker.tasks[idx].completions = 0
                  /\ tracker.tasks[idx].status = "pending"
           /\ attempted = SubSeq(files, 1, closed)
           /\ (pc = "loop" /\ idx > 0) =>
                  /\ olast.file = files[idx]
                  /\ tracker.tasks[idx].error = olast.raised
           /\ pc = "done" =>
                  /\ idx = Len(files)
                  /\ attempted = files
                  /\ tracker.stopped = (Len(files) > 0)

\* A batch of two files is over: the first (b.py, over the size limit) failed
\* and has its error, and the second was started, analyzed and completed.
C7_Witness ==
    /\ pc = "done"
    /\ files = <<"b.py", "c.py">>
    /\ tracker.tasks[1].status = "error"
    /\ tracker.tasks[1].error # ""
    /\ attempted = files
    /\ tracker.tasks[2].completions = 1

\* C8: repeated analysis of an unchanged file is free: with the cache enabled
\* and its store answering, the second of two consecutive analyze_file calls on
\* the same analyzable file (content unchanged, clock unchanged, no eviction or
\* invalidation in between) returns the cached result of the first and invokes
\* neither the analyzer nor the LLM client.
C8_RepeatedAnalysisIsCached ==
    (/\ olast.op = "analyze_file"
     /\ olast.repeat
     /\ config.enabled
     /\ olast.store_ok
     /\ Analyzable(olast.file))
        => (/\ olast.raised = ""
            /\ olast.from_cache
            /\ olast.analyzer_calls = 0
            /\ olast.llm_calls = 0)


(***************************************************************************)
(* Claims about the recursion of analyze_dependencies                      *)
(***************************************************************************)
\* The call as the recursive definition computes it from the state it met.
WholeCall ==
    analyze_dependencies([AnalyzerState EXCEPT !.file_cache = wcall.reads0,
                                               !.dependency_cache = wcall.memo0],
                         wcall.file, wcall.depth)

\* The step-wise call ends as the recursive definition says: same result or
\* exception, same memo tables.
WalkAgrees ==
    wret.done =>
        /\ wret.ret = WholeCall.ret
        /\ wret.raised = WholeCall.raised
        /\ file_cache = WholeCall.st.file_cache
        /\ dependency_cache = WholeCall.st.dependency_cache

\* Some file of the workspace is on a cycle of local imports.
Cyclic == \E f \in Files : f \in Reach(f, Cardinality(Files))

Ran(op) ==
    /\ rlast'.op = op
    /\ \/ rlast' # rlast
       \/ file_cache' # file_cache
       \/ dependency_cache' # dependency_cache

\* C15: read_file is memoized per path until clear_caches: a read of a path
\* that has a memoized text returns that text without touching the file,
\* whatever the file has become (rewritten, deleted, grown over the limit); a
\* memoized text stays as it is through every step but clear_caches; a read
\* that returns a text read from disk memoizes it; a read that fails or returns
\* None memoizes nothing, and a read without a memoized text answers from the
\* file as it is now.
C15_ReadMemoUntilClear ==
    [][/\ Ran("read_file")
              => LET f == rlast'.file
                 IN /\ f \in DOMAIN file_cache
                        => /\ rlast'.raised = "" /\ rlast'.found
                           /\ rlast'.content = file_cache[f]
                           /\ ~rlast'.touched
                           /\ file_cache' = file_cache
                    /\ f \notin DOMAIN file_cache
                        => /\ rlast'.found
                               <=> (/\ f \in on_disk
                                    /\ disk[f].size <= max_file_size
                                    /\ disk[f].decodes)
                           /\ rlast'.found
                               => /\ rlast'.content = disk[f]
                                  /\ f \in DOMAIN file_cache'
                                  /\ file_cache'[f] = disk[f]
                           /\ ~rlast'.found => file_cache' = file_cache
                           /\ rlast'.raised = ""
                               <=> (f \notin on_disk \/ rlast'.found)
       /\ ~Ran("clear_caches")
              => \A f \in DOMAIN file_cache :
                     f \in DOMAIN file_cache' /\ file_cache'[f] = file_cache[f]
       /\ Ran("clear_caches") => file_cache' = EmptyMap
      ]_vars

\* A read returned the memoized text of a file that has since grown over the
\* size limit.
C15_Witness ==
    /\ rlast.op = "read_file" /\ rlast.found /\ ~rlast.touched
    /\ rlast.file \in on_disk
    /\ disk[rlast.file].size > max_file_size
    /\ rlast.content # disk[rlast.file]
    /\ rlast.content.size > 0

\* The step is a call of one of the operations that read the file:
\* read_file, get_file_hash, analyze_file, or analyze_dependencies with a
\* depth of 1 or more.
RanReader ==
    \/ Ran("read_file")
    \/ Ran("get_file_hash")
    \/ Ran("analyze_file")
    \/ (Ran("analyze_dependencies") /\ rlast'.depth >= 1)

\* C16 (as claimed): every operation that reads a file fails with the
\* file-too-large error when the file is over max_file_size at the call, and the
\* text is not read; a file of exactly max_file_size bytes is read.
C16_TooLargeAlwaysFails ==
    [][/\ (RanReader /\ rlast'.file \in on_disk
                     /\ disk[rlast'.file].size > max_file_size)
              => (rlast'.raised = "ValueError" /\ ~rlast'.touched)
       /\ (Ran("read_file") /\ rlast'.file \in on_disk
                            /\ rlast'.file \notin DOMAIN file_cache
                            /\ disk[rlast'.file].size = max_file_size)
              => (rlast'.raised = "" /\ rlast'.found)
      ]_vars

\* C17 (as claimed): get_file_hash is stable and change-sensitive: of two
\* consecutive calls on a file that both return, the second returns the hash of
\* the first if the file holds the same text at both calls, and another hash if
\* the text was changed in between.
C17_HashFollowsContent ==
    [][(/\ Ran("get_file_hash")
        /\ rlast.op = "get_file_hash"
        /\ rlast.file = rlast'.file
        /\ rlast.raised = "" /\ rlast'.raised = ""
        /\ rlast'.file \in on_disk)
            => (rlast'.hash = rlast.hash <=> rlast'.seen = rlast.seen)
      ]_vars

\* The call on f has a text to work on: a memoized one, or the file is on
\* disk, within the size limit and UTF-8.
HasText(f) ==
    \/ f \in DOMAIN file_cache
    \/ (f \in on_disk /\ disk[f].size <= max_file_size /\ disk[f].decodes)

\* The text read_file hands to the call on f.
TextOf(f) == IF f \in DOMAIN file_cache THEN file_cache[f] ELSE disk[f]

\* C18 (as claimed): PythonAnalyzer.analyze_file on a readable, non-empty file
\* whose text does not parse returns a result with one error and neither blocks
\* nor dependencies, no exception of the parse reaches the caller; and every
\* result an analyzer returns with errors has neither blocks nor dependencies.
C18_ParseFailureIsADiagnostic ==
    [][/\ (/\ Ran("analyze_file")
           /\ analyzer = "PythonAnalyzer"
           /\ HasText(rlast'.file)
           /\ TextOf(rlast'.file).size > 0
           /\ ~TextOf(rlast'.file).syntax_ok)
              => /\ rlast'.raised = ""
                 /\ rlast'.errors = 1
                 /\ rlast'.blocks = 0
                 /\ rlast'.dependencies = <<>>
       /\ (Ran("analyze_file") /\ rlast'.raised = "" /\ rlast'.errors > 0)
              => (rlast'.blocks = 0 /\ rlast'.dependencies = <<>>)
      ]_vars

\* C19 (as claimed): in every result analyze_file returns, exactly one of
\* "errors is empty" and "blocks and dependencies are both empty" holds.
C19_ErrorsXorFacts ==
    (rlast.op = "analyze_file" /\ rlast.raised = "")
        => ((rlast.errors = 0) # (rlast.blocks = 0 /\ rlast.dependencies = <<>>))

\* C19 (amended): in every result analyze_file returns, diagnostics and
\* structural facts are never both populated: at most one of "errors is
\* non-empty" and "blocks or dependencies is non-empty" holds.
C19_NeverBothPopulated ==
    (rlast.op = "analyze_file" /\ rlast.raised = "")
        => ~(rlast.errors > 0 /\ (rlast.blocks > 0 \/ rlast.dependencies # <<>>))

\* analyze_file returned a result that carries a diagnostic and no facts.
C19_Witness ==
    /\ rlast.op = "analyze_file"
    /\ rlast.raised = ""
    /\ rlast.errors = 1
    /\ rlast.blocks = 0
    /\ rlast.dependencies = <<>>

\* C20 (as claimed): analyze_file of either analyzer on a file that exists, is
\* within max_file_size (a zero-byte file included) and decodes returns a
\* result, and whenever it raises, the file is missing, over the limit or
\* undecodable.
C20_ResultOrPrecondition ==
    [][Ran("analyze_file")
          => LET f == rlast'.file
                 ok == f \in on_disk /\ disk[f].size <= max_file_size /\ disk[f].decodes
             IN /\ ok => rlast'.raised = ""
                /\ rlast'.raised # "" => ~ok
      ]_vars

\* C27 (as claimed): the result analyze_file returns for a text that parsed
\* carries what the analyzer extracted, for PythonAnalyzer and ReactAnalyzer
\* alike: one block for each block it built and one dependency for each import
\* occurrence it matched, in order, with import_path set exactly when is_local.
C27_ResultCarriesFacts ==
    [][(/\ Ran("analyze_file")
        /\ rlast'.raised = ""
        /\ rlast'.errors = 0
        /\ HasText(rlast'.file))
            => /\ rlast'.blocks = TextOf(rlast'.file).defs
               /\ rlast'.dependencies = TextOf(rlast'.file).imports
               /\ \A i \in 1 .. Len(rlast'.dependencies) :
                      rlast'.dependencies[i].is_local
                          <=> rlast'.dependencies[i].import_path # ""
      ]_vars

(***************************************************************************)
(* Claims about the analysis of a text                                     *)
(***************************************************************************)
\* C21 (as claimed): _find_closing_brace raises nothing and returns an offset
\* from start to len(content), for every text and every offset within it,
\* unbalanced braces included.
C21_BraceScanNeverFails ==
    brace.op = "_find_closing_brace"
        => /\ brace.raised = ""
           /\ brace.start <= brace.ret
           /\ brace.ret <= Len(brace.content)

\* The nodes of kind k in the declaration fn.
NodesOf(fn, k) == {i \in 1 .. Len(walk(<<fn>>)) : walk(<<fn>>)[i].kind = k}

\* What the claim counts for a node: 1 for a conditional, a loop, an exception
\* handler or raise, an assertion; N - 1 for an N-way boolean operator.
ClaimedScore(node) ==
    IF node.kind \in {"If", "While", "For", "ExceptHandler", "Raise", "Assert"} THEN 1
    ELSE IF node.kind = "BoolOp" THEN node.n - 1
    ELSE 0

RECURSIVE ClaimedSum(_, _)
ClaimedSum(nodes, i) ==
    IF i > Len(nodes) THEN 0 ELSE ClaimedScore(nodes[i]) + ClaimedSum(nodes, i + 1)

\* A function with exactly one if and one `except Exception:` block (and the
\* try it belongs to), and nothing else that scores or warns.
OneIfOneExcept(fn) ==
    /\ Cardinality(NodesOf(fn, "If")) = 1
    /\ Cardinality(NodesOf(fn, "Try")) = 1
    /\ Cardinality(NodesOf(fn, "ExceptHandler")) = 1
    /\ \A i \in NodesOf(fn, "ExceptHandler") : walk(<<fn>>)[i].type = "Exception"
    /\ \A k \in {"While", "For", "With", "Assert", "Raise", "BoolOp"} : NodesOf(fn, k) = {}
    /\ fn.n = 0

\* C22 (as claimed): the complexity of a declaration is 1, plus 1 for each
\* conditional, loop, exception-handling or assertion construct in it, plus
\* N - 1 for each N-way boolean operator; a function with exactly one if and
\* one `except Exception:` scores 3 and has exactly one warning, the broad
\* exception handler at the handler's line.
C22_ComplexityScore ==
    cx.op = "analyze"
        => /\ cx.complexity = 1 + ClaimedSum(walk(<<cx.node>>), 1)
           /\ OneIfOneExcept(cx.node)
                  => /\ cx.complexity = 3
                     /\ \E i \in NodesOf(cx.node, "ExceptHandler") :
                            cx.warnings = <<[warning |-> "Broad exception handler",
                                             line |-> walk(<<cx.node>>)[i].lineno]>>

(***************************************************************************)
(* Claims about concurrent writers of the cache                            *)
(***************************************************************************)
\* The rows of the path the workers write.
RaceRows == {r \in table : r.file_path = RacePath}

\* C23: when both workers' set calls on the same path have returned on an
\* enabled cache, whatever the order of their steps, the store holds exactly
\* one row of that path, and it is the row the worker that inserted last
\* wrote, whole: hash, result, timestamp and size; a get with that worker's
\* hash within the TTL returns that worker's result.
C23_LastWriteWinsWhole ==
    (config.enabled /\ \A w \in Workers : workers[w].pc = "done")
        => \E w \in Workers :
              /\ workers[w].seq = Cardinality(Workers)
              /\ RaceRows = {workers[w].row}
              /\ workers[w].row = [file_path     |-> RacePath,
                                   content_hash  |-> workers[w].hash,
                                   analysis_data |-> json_dumps(workers[w].data),
                                   timestamp     |-> workers[w].row.timestamp,
                                   file_size     |-> text_len(json_dumps(workers[w].data))]
              /\ is_fresh(clock, workers[w].row.timestamp)
                     => get(table, config, clock, RacePath, workers[w].hash)
                            = Some(json_loads(json_dumps(workers[w].data)))

\* Both calls have returned; they wrote different hashes and results; the
\* first insert came while the other worker was between its eviction check
\* and its insert, and the eviction check of the second deleted nothing of it.
C23_Witness ==
    /\ config.enabled
    /\ \A w \in Workers : workers[w].pc = "done"
    /\ workers[1].hash # workers[2].hash
    /\ workers[1].data # workers[2].data
    /\ workers[1].seq = 1
    /\ workers[1].peer \in {"values", "insert"}
    /\ RaceRows = {workers[2].row}

====
